---- MODULE Spec2Model ----
(***************************************************************************)
(* udir: one-way directory synchroniser.                                   *)
(*                                                                         *)
(* The model follows src/src/file_handling.rs (the diff                    *)
(* get_files_and_directories with its exclusion set, create_directories,   *)
(* copy_files) and src/src/main.rs (the top-level run).  The filesystem is *)
(* a finite map from absolute paths to entries; a path is the sequence of  *)
(* its components.                                                         *)
(***************************************************************************)
EXTENDS Integers, Sequences, FiniteSets, TLC

\* ------------------------------------------------------------------ bounds
\* Components below a root.
MaxDepth == 2
\* Modification times are 1..MaxTime.
MaxTime == 2
\* Steps taken before the program runs: an entry created, a root replaced,
\* a call made to fail, a path put in directories_to_skip, an item put on
\* the list handed to create_directories.
MaxSetup == 3

Names == {"a", "b"}
SourceRoot == <<"s">>
TargetRoot == <<"t">>

RECURSIVE Below(_, _)
Below(S, d) ==
    IF d = 0 THEN S
    ELSE S \cup Below({Append(p, n) : p \in S, n \in Names}, d - 1)

SourcePaths == Below({SourceRoot}, MaxDepth)
TargetPaths == Below({TargetRoot}, MaxDepth)
AllPaths == SourcePaths \cup TargetPaths
Roots == {SourceRoot, TargetRoot}

\* The order in which fs::read_dir yields the entries of a directory is
\* unspecified: any permutation of the names.
Orders == {o \in [1..Cardinality(Names) -> Names] :
             \A k, l \in DOMAIN o : k # l => o[k] # o[l]}

\* The fallible filesystem calls of the diff, and of the apply phases.
DiffFaults ==
    {<<"read_dir", p>> : p \in SourcePaths}
        \cup {<<"exists", p>> : p \in TargetPaths \ {TargetRoot}}
        \cup {<<"metadata", p>> : p \in AllPaths}
        \cup {<<"modified", <<>>>>}

VARIABLES
    fs,                  \* path -> [kind, mtime, content]
    faults,              \* <<call, path>> pairs that fail with an io::Error
    dirOrder,            \* the order read_dir yields names in
    pc,                  \* where the caller is
    source,              \* get_files_and_directories: source
    target,              \* get_files_and_directories: target
    directories_to_skip, \* get_files_and_directories: directories_to_skip
    fs0,                 \* the filesystem as it was when the call started
    result,              \* io::Result<FilesAndDirectories> of the call
    list_of_directories, \* create_directories: list_of_directories
    list_of_files,       \* copy_files: list_of_files
    i,                   \* items of the running loop already taken
    failed_directories,  \* create_directories: failed_directories
    failed_files,        \* copy_files: failed_files
    ops,                 \* the create_dir and copy calls made so far, in order,
                         \* and what an external writer did in between
    out                  \* the lines printed that name a directory or a file

callVars == <<source, target, directories_to_skip, fs0, result>>
applyVars == <<list_of_directories, list_of_files, i, failed_directories,
               failed_files, ops, out>>
vars == <<fs, faults, dirOrder, pc, source, target, directories_to_skip,
          fs0, result, list_of_directories, list_of_files, i,
          failed_directories, failed_files, ops, out>>

\* ------------------------------------------------------------- filesystem
NoEntry == [kind |-> "none", mtime |-> 0, content |-> <<>>]
DirEntry(t) == [kind |-> "dir", mtime |-> t, content |-> <<>>]
\* A file's content is named after the path it was first written at, so two
\* files written independently differ and a copy is recognisable.
FileEntry(t, c) == [kind |-> "file", mtime |-> t, content |-> c]

Parent(p) == SubSeq(p, 1, Len(p) - 1)

Kind(f, p) == IF p \in DOMAIN f THEN f[p].kind ELSE "none"

NumEntries(f) == Cardinality({p \in AllPaths \ Roots : f[p].kind # "none"})

\* Path::file_name: the last component.
file_name(p) == p[Len(p)]

\* Path::join with a single relative component.
join_as_onto_root(base, name) == <<base[1], name>>
join(base, name) == Append(base, name)

\* Path::is_dir: false when the metadata cannot be read.
is_dir(p) == Kind(fs, p) = "dir" /\ <<"metadata", p>> \notin faults

\* fs::exists: Ok(true), Ok(false) or Err.
exists_err(p) == <<"exists", p>> \in faults
exists(p) == Kind(fs, p) # "none"

\* fs::read_dir and the iteration of its entries.
read_dir_err(p) == <<"read_dir", p>> \in faults
RECURSIVE entries_in(_, _)
entries_in(p, k) ==
    IF k > Cardinality(Names) THEN <<>>
    ELSE LET e == Append(p, dirOrder[k])   \* DirEntry::path
         IN (IF Kind(fs, e) # "none" THEN <<e>> ELSE <<>>) \o entries_in(p, k + 1)
read_dir(p) == entries_in(p, 1)

\* fs::metadata and Metadata::modified.
metadata_err(p) == <<"metadata", p>> \in faults
\* Metadata::modified fails where the platform keeps no modification time:
\* for every path or for none.
modified_err(p) == <<"modified", <<>>>> \in faults
modified(p) == fs[p].mtime

\* ---------------------------------------------------------------- the diff
FileToCopy(s, t) == [source |-> s, target |-> t]
DirectoryToCreate(p) == [path |-> p]
Ok(f, d) == [ok |-> TRUE, files |-> f, directories |-> d]
Err == [ok |-> FALSE, files |-> <<>>, directories |-> <<>>]
NoResult == [ok |-> FALSE, files |-> <<"none">>, directories |-> <<>>]

RECURSIVE get_files_and_directories(_, _, _)

\* Line 38: the entry is a directory to walk into.
descend_into_as_any_dir(source_path, skip) == is_dir(source_path)
descend_into(source_path, skip) ==
    is_dir(source_path) /\ source_path \notin skip

\* Lines 43-44: the target directory is planned when it does not exist.
dir_missing_as_never(new_target) == FALSE
dir_missing_as_always(new_target) == TRUE
dir_missing(new_target) == ~exists(new_target)

\* Line 68: the target was modified strictly before the source.
target_is_older_as_not_newer(source_path, target_path) ==
    modified(target_path) <= modified(source_path)
target_is_older(source_path, target_path) ==
    modified(target_path) < modified(source_path)

\* Lines 74-80: the target does not exist, the file is planned.
plan_missing_file_as_dropped(acc, source_path, target_path) == acc
plan_missing_file(acc, source_path, target_path) ==
    Ok(Append(acc.files, FileToCopy(source_path, target_path)), acc.directories)

\* Line 51: the directories planned below the entry go after those planned
\* so far, the entry's own among them.
append_directories_as_children_first(directories, below) == below \o directories
append_directories(directories, below) == directories \o below

\* Lines 36-81, the body of the for loop for one entry; acc is the Ok value
\* built so far, the value is the Ok value after the entry, or Err where a ?
\* returns.
entry_step(source_path, tgt, skip, acc) ==
    LET is_entry_dir == is_dir(source_path)
    IN
    IF descend_into(source_path, skip)
    THEN LET dir_name == file_name(source_path)
             new_target == join(tgt, dir_name)
         IN IF exists_err(new_target) THEN Err
            ELSE LET dirs1 == IF dir_missing(new_target)
                              THEN Append(acc.directories, DirectoryToCreate(new_target))
                              ELSE acc.directories
                     res == get_files_and_directories(source_path, new_target, skip)
                 IN IF ~res.ok THEN Err
                    ELSE Ok(acc.files \o res.files,
                            append_directories(dirs1, res.directories))
    ELSE IF ~is_entry_dir
    THEN LET name == file_name(source_path)
             target_path == join(tgt, name)
         IN IF exists_err(target_path) THEN Err
            ELSE IF exists(target_path)
            THEN IF \/ metadata_err(source_path) \/ metadata_err(target_path)
                    \/ modified_err(source_path) \/ modified_err(target_path)
                 THEN Err
                 ELSE IF target_is_older(source_path, target_path)
                      THEN Ok(Append(acc.files, FileToCopy(source_path, target_path)),
                              acc.directories)
                      ELSE acc
            ELSE plan_missing_file(acc, source_path, target_path)
    ELSE acc

\* Lines 34-35 and 82: the for loop; an Err of an entry ends the call.
RECURSIVE for_entries_as_skipping_errors(_, _, _, _)
for_entries_as_skipping_errors(entries, tgt, skip, acc) ==
    IF entries = <<>> THEN acc
    ELSE LET r == entry_step(Head(entries), tgt, skip, acc)
         IN for_entries_as_skipping_errors(Tail(entries), tgt, skip,
                                           IF r.ok THEN r ELSE acc)
RECURSIVE for_entries(_, _, _, _)
for_entries(entries, tgt, skip, acc) ==
    IF entries = <<>> THEN acc
    ELSE LET r == entry_step(Head(entries), tgt, skip, acc)
         IN IF ~r.ok THEN Err ELSE for_entries(Tail(entries), tgt, skip, r)

get_files_and_directories_as_strict(src, tgt, skip) ==
    IF is_dir(src)
    THEN IF read_dir_err(src) THEN Err
         ELSE for_entries(read_dir(src), tgt, skip, Ok(<<>>, <<>>))
    ELSE Err
get_files_and_directories(src, tgt, skip) ==
    IF is_dir(src)
    THEN IF read_dir_err(src) THEN Err
         ELSE for_entries(read_dir(src), tgt, skip, Ok(<<>>, <<>>))
    ELSE Ok(<<>>, <<>>)

\* ------------------------------------------------------- the environment
\* What exists before the program runs: the two roots, and whatever the
\* environment creates below them.
InitFs == [p \in AllPaths |-> IF p \in Roots THEN DirEntry(1) ELSE NoEntry]

\* The steps taken so far.
SetupSteps ==
    (NumEntries(fs) - NumEntries(fs0))
        + Cardinality({r \in Roots : fs[r].kind # "dir"})
        + Cardinality(faults) + Cardinality(directories_to_skip)
        + Len(list_of_directories) + Len(list_of_files)

\* The source-side path a target path mirrors.
Mirrored(p) == SourceRoot \o Tail(p)

\* A call fails only where the program can make it: on an entry that
\* exists, on the target-side counterpart of one, on a requested path.
CanFail(c) ==
    CASE c[1] = "read_dir" -> fs[c[2]].kind = "dir"
      [] c[1] = "metadata" -> fs[c[2]].kind # "none"
      [] c[1] = "modified" -> TRUE
      [] c[1] = "exists" -> fs[Mirrored(c[2])].kind # "none"
      [] OTHER ->
            \/ fs[Mirrored(c[2])].kind # "none"
            \/ \E k \in DOMAIN list_of_directories :
                  list_of_directories[k].path = c[2]
            \/ \E k \in DOMAIN list_of_files : list_of_files[k].target = c[2]

EnvCreateDir(p, t) ==
    /\ pc = "setup"
    /\ fs[p].kind = "none"
    /\ fs[Parent(p)].kind = "dir"
    /\ SetupSteps < MaxSetup
    /\ fs' = [fs EXCEPT ![p] = DirEntry(t)]
    /\ UNCHANGED <<faults, dirOrder, pc, callVars, applyVars>>

EnvWriteFile(p, t) ==
    /\ pc = "setup"
    /\ fs[p].kind = "none"
    /\ fs[Parent(p)].kind = "dir"
    /\ SetupSteps < MaxSetup
    /\ fs' = [fs EXCEPT ![p] = FileEntry(t, p)]
    /\ UNCHANGED <<faults, dirOrder, pc, callVars, applyVars>>

EnvFault(c) ==
    /\ pc = "setup"
    /\ c \notin faults
    /\ CanFail(c)
    /\ SetupSteps < MaxSetup
    /\ faults' = faults \cup {c}
    /\ UNCHANGED <<fs, dirOrder, pc, callVars, applyVars>>

\* A root that is not a directory: missing, or a regular file.
EnvReplaceRoot(r, e) ==
    /\ pc = "setup"
    /\ SetupSteps < MaxSetup
    /\ fs[r].kind = "dir"
    /\ \A p \in AllPaths \ Roots : fs[p].kind = "none"
    /\ fs' = [fs EXCEPT ![r] = e]
    /\ UNCHANGED <<faults, dirOrder, pc, callVars, applyVars>>

Env ==
    \/ \E p \in AllPaths \ Roots : EnvCreateDir(p, 1)
    \/ \E p \in AllPaths \ Roots, t \in 1..MaxTime : EnvWriteFile(p, t)
    \/ \E r \in Roots : \E e \in {NoEntry, FileEntry(1, r)} : EnvReplaceRoot(r, e)

\* ------------------------------------- calls of get_files_and_directories
\* The caller puts a source-side directory in directories_to_skip.
EnvSkip(p) ==
    /\ pc = "setup"
    /\ fs[p].kind = "dir"
    /\ p \notin directories_to_skip
    /\ SetupSteps < MaxSetup
    /\ directories_to_skip' = directories_to_skip \cup {p}
    /\ UNCHANGED <<fs, faults, dirOrder, pc, source, target, fs0, result,
                   applyVars>>

\* A walk that creates the first missing directory as it goes.
CallGetFilesAndDirectories_as_mutating(src, tgt, skip) ==
    /\ pc = "setup"
    /\ source' = src
    /\ target' = tgt
    /\ directories_to_skip' = skip
    /\ fs0' = fs
    /\ result' = get_files_and_directories(src, tgt, skip)
    /\ pc' = "returned"
    /\ fs' = IF result'.ok /\ result'.directories # <<>>
             THEN [fs EXCEPT ![result'.directories[1].path] = DirEntry(1)]
             ELSE fs
    /\ UNCHANGED <<faults, dirOrder, applyVars>>

\* A call of get_files_and_directories, the whole recursion: it reads the
\* filesystem and writes nothing.
CallGetFilesAndDirectories(src, tgt, skip) ==
    /\ pc = "setup"
    /\ source' = src
    /\ target' = tgt
    /\ directories_to_skip' = skip
    /\ fs0' = fs
    /\ result' = get_files_and_directories(src, tgt, skip)
    /\ pc' = "returned"
    /\ UNCHANGED <<fs, faults, dirOrder, applyVars>>

Init ==
    /\ fs = InitFs
    /\ faults = {}
    /\ dirOrder \in Orders
    /\ pc = "setup"
    /\ source = <<>>
    /\ target = <<>>
    /\ directories_to_skip = {}
    /\ fs0 = InitFs
    /\ result = NoResult
    /\ list_of_directories = <<>>
    /\ list_of_files = <<>>
    /\ i = 0
    /\ failed_directories = <<>>
    /\ failed_files = <<>>
    /\ ops = <<>>
    /\ out = <<>>

NextDiff ==
    \/ Env
    \/ \E c \in DiffFaults : EnvFault(c)
    \/ \E p \in SourcePaths : EnvSkip(p)
    \/ CallGetFilesAndDirectories(SourceRoot, TargetRoot, directories_to_skip)

SpecDiff == Init /\ [][NextDiff]_vars


\* ----------------------------------------------------- the apply primitives
\* The time of the run.  A file stamped MaxTime carries a time in the future
\* (a skewed clock, an unpacked archive, touch).
Now == MaxTime - 1

ApplyFaults ==
    {<<"create_dir", p>> : p \in TargetPaths \ {TargetRoot}}
        \cup {<<"copy", p>> : p \in TargetPaths \ {TargetRoot}}

\* A create_dir that does not ask for the parent, as create_dir_all.
create_dir_ok_as_recursive(p) ==
    /\ p \in AllPaths
    /\ Kind(fs, p) = "none"
    /\ <<"create_dir", p>> \notin faults

\* fs::create_dir: not recursive, and an error when the path exists.
create_dir_ok(p) ==
    /\ p \in AllPaths
    /\ Kind(fs, p) = "none"
    /\ Kind(fs, Parent(p)) = "dir"
    /\ <<"create_dir", p>> \notin faults
create_dir_fs(p) == [fs EXCEPT ![p] = DirEntry(Now)]

\* fs::copy: the content of a regular file, over whatever file the target
\* is.  The target's modification time afterwards is the platform's choice:
\* the source's (the copy keeps it) or the time of the copy.
\* A copy that compares the modification times again and fails where the
\* target is not older than the source.
copy_ok_as_comparing_times(from, to) ==
    /\ Kind(fs, from) = "file"
    /\ to \in AllPaths
    /\ Kind(fs, to) # "dir"
    /\ Kind(fs, Parent(to)) = "dir"
    /\ <<"copy", to>> \notin faults
    /\ Kind(fs, to) = "file" => fs[to].mtime < fs[from].mtime
copy_ok(from, to) ==
    /\ Kind(fs, from) = "file"
    /\ to \in AllPaths
    /\ Kind(fs, to) # "dir"
    /\ Kind(fs, Parent(to)) = "dir"
    /\ <<"copy", to>> \notin faults
CopyTimes(from) == {fs[from].mtime, Now}
\* A copy that leaves a file already at the target as it is.
copy_fs_as_keeping_existing(from, to, t) ==
    IF Kind(fs, to) = "file" THEN fs
    ELSE [fs EXCEPT ![to] = FileEntry(t, fs[from].content)]
copy_fs(from, to, t) == [fs EXCEPT ![to] = FileEntry(t, fs[from].content)]

Attempt(op, p, ok) == [op |-> op, path |-> p, ok |-> ok]
Line(text, p) == <<text, p>>

RECURSIVE Lines(_, _)
Lines(text, paths) ==
    IF paths = <<>> THEN <<>>
    ELSE <<Line(text, Head(paths))>> \o Lines(text, Tail(paths))

RECURSIVE PathsOf(_)
PathsOf(dirs) ==
    IF dirs = <<>> THEN <<>> ELSE <<Head(dirs).path>> \o PathsOf(Tail(dirs))

RECURSIVE SourcesOf(_)
SourcesOf(fls) ==
    IF fls = <<>> THEN <<>> ELSE <<Head(fls).source>> \o SourcesOf(Tail(fls))

\* ------------------------------------------------- main.rs: the diff it runs
RECURSIVE main_get_files_and_directories(_, _)

\* main.rs lines 34-78, the body of the for loop for one entry.
main_entry_step(source_path, tgt, acc) ==
    IF is_dir(source_path)
    THEN LET dir_name == file_name(source_path)
             new_target == join(tgt, dir_name)
         IN IF exists_err(new_target) THEN Err
            ELSE LET dirs1 == IF ~exists(new_target)
                              THEN Append(acc.directories, DirectoryToCreate(new_target))
                              ELSE acc.directories
                     res == main_get_files_and_directories(source_path, new_target)
                 IN IF ~res.ok THEN Err
                    ELSE Ok(acc.files \o res.files, dirs1 \o res.directories)
    ELSE LET name == file_name(source_path)
             target_path == join(tgt, name)
         IN IF exists_err(target_path) THEN Err
            ELSE IF exists(target_path)
            THEN IF \/ metadata_err(source_path) \/ metadata_err(target_path)
                    \/ modified_err(source_path) \/ modified_err(target_path)
                 THEN Err
                 ELSE IF modified(target_path) < modified(source_path)
                      THEN Ok(Append(acc.files, FileToCopy(source_path, target_path)),
                              acc.directories)
                      ELSE acc
            ELSE Ok(Append(acc.files, FileToCopy(source_path, target_path)),
                    acc.directories)

RECURSIVE main_for_entries(_, _, _)
main_for_entries(entries, tgt, acc) ==
    IF entries = <<>> THEN acc
    ELSE LET r == main_entry_step(Head(entries), tgt, acc)
         IN IF ~r.ok THEN Err ELSE main_for_entries(Tail(entries), tgt, r)

main_get_files_and_directories(src, tgt) ==
    IF is_dir(src)
    THEN IF read_dir_err(src) THEN Err
         ELSE main_for_entries(read_dir(src), tgt, Ok(<<>>, <<>>))
    ELSE Ok(<<>>, <<>>)

\* ------------------------------------------------------- main.rs: the run
\* main.rs lines 416-434: the two is_dir checks, then the diff; expect()
\* panics on Err.
AfterDiff(r) == IF r.ok THEN "create_directories" ELSE "panicked"
\* A run that goes on to the apply phases whatever the diff returned, with
\* the directories missing right below the target.
AfterDiff_as_applying_anyway(r) == "create_directories"
PlanOf_as_applying_anyway(r) ==
    IF r.ok THEN r
    ELSE Ok(<<>>, [k \in 1..Len(SelectSeq(read_dir(SourceRoot),
                        LAMBDA e : is_dir(e) /\ ~exists(join(TargetRoot, file_name(e))))) |->
                   DirectoryToCreate(join(TargetRoot, file_name(
                       SelectSeq(read_dir(SourceRoot),
                           LAMBDA e : is_dir(e) /\ ~exists(join(TargetRoot, file_name(e))))[k])))])

MainDiff_as_applying_anyway ==
    /\ pc = "setup"
    /\ source' = SourceRoot
    /\ target' = TargetRoot
    /\ directories_to_skip' = {}
    /\ fs0' = fs
    /\ IF ~is_dir(SourceRoot) \/ ~is_dir(TargetRoot)
       THEN /\ pc' = "exited"
            /\ UNCHANGED <<result, list_of_directories, list_of_files>>
       ELSE LET r == main_get_files_and_directories(SourceRoot, TargetRoot)
            IN /\ result' = r
               /\ pc' = AfterDiff_as_applying_anyway(r)
               /\ list_of_directories' = PlanOf_as_applying_anyway(r).directories
               /\ list_of_files' = PlanOf_as_applying_anyway(r).files
    /\ UNCHANGED <<fs, faults, dirOrder, i, failed_directories, failed_files,
                   ops, out>>

MainDiff ==
    /\ pc = "setup"
    /\ source' = SourceRoot
    /\ target' = TargetRoot
    /\ directories_to_skip' = {}
    /\ fs0' = fs
    /\ IF ~is_dir(SourceRoot) \/ ~is_dir(TargetRoot)
       THEN /\ pc' = "exited"
            /\ UNCHANGED <<result, list_of_directories, list_of_files>>
       ELSE LET r == main_get_files_and_directories(SourceRoot, TargetRoot)
            IN /\ result' = r
               /\ pc' = AfterDiff(r)
               /\ list_of_directories' = r.directories
               /\ list_of_files' = r.files
    /\ UNCHANGED <<fs, faults, dirOrder, i, failed_directories, failed_files,
                   ops, out>>

\* main.rs lines 94-107, one turn of the loop of create_directories, called
\* at line 438.
MainCreateDirectory ==
    /\ pc = "create_directories"
    /\ i < Len(list_of_directories)
    /\ LET directory == list_of_directories[i + 1]
       IN IF create_dir_ok(directory.path)
          THEN /\ fs' = create_dir_fs(directory.path)
               /\ out' = Append(out, Line("Directory created: ", directory.path))
               /\ ops' = Append(ops, Attempt("create_dir", directory.path, TRUE))
               /\ UNCHANGED failed_directories
          ELSE /\ failed_directories' = Append(failed_directories, directory)
               /\ ops' = Append(ops, Attempt("create_dir", directory.path, FALSE))
               /\ UNCHANGED <<fs, out>>
    /\ i' = i + 1
    /\ UNCHANGED <<faults, dirOrder, pc, callVars, list_of_directories,
                   list_of_files, failed_files>>

\* A run that may go on to its copy loop with directories still to create.
MainCreateDirectoriesReturn_as_leaving_early ==
    /\ pc = "create_directories"
    /\ i <= Len(list_of_directories)
    /\ pc' = "copy_files"
    /\ i' = 0
    /\ UNCHANGED <<fs, faults, dirOrder, callVars, list_of_directories,
                   list_of_files, failed_directories, failed_files, ops, out>>

\* main.rs lines 88-90 and 109-113: create_directories returns, and main
\* goes on to its copy loop.
MainCreateDirectoriesReturn ==
    /\ pc = "create_directories"
    /\ i = Len(list_of_directories)
    /\ pc' = "copy_files"
    /\ i' = 0
    /\ UNCHANGED <<fs, faults, dirOrder, callVars, list_of_directories,
                   list_of_files, failed_directories, failed_files, ops, out>>

\* main.rs lines 440-450, one turn of the copy loop: unwrap() panics when
\* the copy fails.
MainCopyFile ==
    /\ pc = "copy_files"
    /\ i < Len(list_of_files)
    /\ LET file == list_of_files[i + 1]
       IN IF copy_ok(file.source, file.target)
          THEN /\ \E t \in CopyTimes(file.source) :
                     fs' = copy_fs(file.source, file.target, t)
               /\ ops' = Append(ops, Attempt("copy", file.target, TRUE))
               /\ i' = i + 1
               /\ UNCHANGED pc
          ELSE /\ ops' = Append(ops, Attempt("copy", file.target, FALSE))
               /\ pc' = "panicked"
               /\ UNCHANGED <<fs, i>>
    /\ UNCHANGED <<faults, dirOrder, callVars, list_of_directories,
                   list_of_files, failed_directories, failed_files, out>>

\* main.rs lines 451-467: the summary.
MainSummary ==
    /\ pc = "copy_files"
    /\ i = Len(list_of_files)
    /\ out' = out
              \o (IF Len(failed_directories) > 0
                  THEN <<Line("Failed to create directories:", <<>>)>>
                       \o Lines("    ", PathsOf(failed_directories))
                  ELSE <<>>)
              \o Lines("Directory created: ", PathsOf(list_of_directories))
              \o <<Line("Failed to create files:", <<>>)>>
              \o Lines("File copied: ", SourcesOf(list_of_files))
    /\ pc' = "done"
    /\ UNCHANGED <<fs, faults, dirOrder, callVars, list_of_directories,
                   list_of_files, i, failed_directories, failed_files, ops>>

NextMain ==
    \/ Env
    \/ \E c \in DiffFaults \cup ApplyFaults : EnvFault(c)
    \/ MainDiff
    \/ MainCreateDirectory
    \/ MainCreateDirectoriesReturn
    \/ MainCopyFile
    \/ MainSummary

SpecMain == Init /\ [][NextMain]_vars


\* ------------------------------- file_handling.rs: create_directories
\* The caller puts one more directory on the list it will hand over.
RequestDirectory(p) ==
    /\ pc = "setup"
    /\ SetupSteps < MaxSetup
    /\ list_of_directories' = Append(list_of_directories, DirectoryToCreate(p))
    /\ UNCHANGED <<fs, faults, dirOrder, pc, callVars, list_of_files, i,
                   failed_directories, failed_files, ops, out>>

\* Lines 88-97: the call; an empty list returns an empty Vec at once.
CallCreateDirectories(list) ==
    /\ pc = "setup"
    /\ list_of_directories' = list
    /\ fs0' = fs
    /\ failed_directories' = <<>>
    /\ i' = 0
    /\ pc' = IF Len(list) = 0 THEN "create_directories_returned"
             ELSE "in_create_directories"
    /\ UNCHANGED <<fs, faults, dirOrder, source, target, directories_to_skip,
                   result, list_of_files, failed_files, ops, out>>

\* What one turn of the loop leaves in i: the next item.
next_item_as_stopping_at_failure(created) ==
    IF created THEN i + 1 ELSE Len(list_of_directories)
next_item(created) == i + 1

\* Lines 99-112, one turn of the loop: a failed create_dir is pushed to
\* failed_directories and the loop goes on.
CreateDirectoriesStep ==
    /\ pc = "in_create_directories"
    /\ i < Len(list_of_directories)
    /\ LET directory == list_of_directories[i + 1]
       IN IF create_dir_ok(directory.path)
          THEN /\ fs' = create_dir_fs(directory.path)
               /\ out' = Append(out, Line("Directory created: ", directory.path))
               /\ ops' = Append(ops, Attempt("create_dir", directory.path, TRUE))
               /\ i' = next_item(TRUE)
               /\ UNCHANGED failed_directories
          ELSE /\ failed_directories' = Append(failed_directories, directory)
               /\ ops' = Append(ops, Attempt("create_dir", directory.path, FALSE))
               /\ i' = next_item(FALSE)
               /\ UNCHANGED <<fs, out>>
    /\ UNCHANGED <<faults, dirOrder, pc, callVars, list_of_directories,
                   list_of_files, failed_files>>

\* A create_directories that may return with items still to take.
CreateDirectoriesReturn_as_returning_early ==
    /\ pc = "in_create_directories"
    /\ i <= Len(list_of_directories)
    /\ pc' = "create_directories_returned"
    /\ UNCHANGED <<fs, faults, dirOrder, callVars, applyVars>>

\* Lines 114-118: the loop is over, failed_directories is returned.
CreateDirectoriesReturn ==
    /\ pc = "in_create_directories"
    /\ i = Len(list_of_directories)
    /\ pc' = "create_directories_returned"
    /\ UNCHANGED <<fs, faults, dirOrder, callVars, applyVars>>

NextCreate ==
    \/ \E p \in TargetPaths \ Roots : EnvCreateDir(p, 1)
    \/ \E p \in TargetPaths \ Roots : EnvWriteFile(p, 1)
    \/ \E p \in TargetPaths \ Roots : EnvFault(<<"create_dir", p>>)
    \/ \E p \in TargetPaths \ Roots : RequestDirectory(p)
    \/ CallCreateDirectories(list_of_directories)
    \/ CreateDirectoriesStep
    \/ CreateDirectoriesReturn

\* create_directories lists no directory: one order stands for all.
InitCreate == Init /\ dirOrder = (CHOOSE o \in Orders : TRUE)

SpecCreate == InitCreate /\ [][NextCreate]_vars

\* ------------------------------------- file_handling.rs: copy_files
\* The source tree copy_files is run on: a file right below the source, a
\* subdirectory with a file in it, and names that do not exist.
CopyFixture ==
    [InitFs EXCEPT ![<<"s", "a">>] = FileEntry(MaxTime, <<"s", "a">>),
                   ![<<"s", "b">>] = DirEntry(1),
                   ![<<"s", "b", "a">>] = FileEntry(1, <<"s", "b", "a">>)]

\* The caller puts one more file on the list it will hand over: a source
\* path and the target path that mirrors it.
RequestFile(p) ==
    /\ pc = "setup"
    /\ SetupSteps < MaxSetup
    /\ list_of_files' = Append(list_of_files,
                               FileToCopy(p, TargetRoot \o Tail(p)))
    /\ UNCHANGED <<fs, faults, dirOrder, pc, callVars, list_of_directories, i,
                   failed_directories, failed_files, ops, out>>

\* Lines 122-129: the call; an empty list returns an empty Vec at once.
CallCopyFiles(list) ==
    /\ pc = "setup"
    /\ list_of_files' = list
    /\ fs0' = fs
    /\ failed_files' = <<>>
    /\ i' = 0
    /\ pc' = IF Len(list) = 0 THEN "copy_files_returned" ELSE "in_copy_files"
    /\ UNCHANGED <<fs, faults, dirOrder, source, target, directories_to_skip,
                   result, list_of_directories, failed_directories, ops, out>>

\* What one turn of the loop leaves in i: the next item.
next_file_as_stopping_at_failure(copied) ==
    IF copied THEN i + 1 ELSE Len(list_of_files)
next_file(copied) == i + 1

\* Lines 131-144, one turn of the loop: a failed fs::copy is pushed to
\* failed_files and the loop goes on.
CopyFilesStep ==
    /\ pc = "in_copy_files"
    /\ i < Len(list_of_files)
    /\ LET file == list_of_files[i + 1]
       IN IF copy_ok(file.source, file.target)
          THEN /\ \E t \in CopyTimes(file.source) :
                     fs' = copy_fs(file.source, file.target, t)
               /\ out' = Append(out, Line("File copied: ", file.source))
               /\ ops' = Append(ops, Attempt("copy", file.target, TRUE))
               /\ i' = next_file(TRUE)
               /\ UNCHANGED failed_files
          ELSE /\ failed_files' = Append(failed_files, file)
               /\ ops' = Append(ops, Attempt("copy", file.target, FALSE))
               /\ i' = next_file(FALSE)
               /\ UNCHANGED <<fs, out>>
    /\ UNCHANGED <<faults, dirOrder, pc, callVars, list_of_directories,
                   list_of_files, failed_directories>>

\* A copy_files that ends by removing from the target what the source does
\* not hold.
CopyFilesReturn_as_pruning ==
    /\ pc = "in_copy_files"
    /\ i = Len(list_of_files)
    /\ pc' = "copy_files_returned"
    /\ fs' = [p \in AllPaths |->
                IF p \in TargetPaths \ Roots /\ fs[Mirrored(p)].kind = "none"
                THEN NoEntry ELSE fs[p]]
    /\ UNCHANGED <<faults, dirOrder, callVars, applyVars>>

\* Lines 145-147: the loop is over, failed_files is returned.
CopyFilesReturn ==
    /\ pc = "in_copy_files"
    /\ i = Len(list_of_files)
    /\ pc' = "copy_files_returned"
    /\ UNCHANGED <<fs, faults, dirOrder, callVars, applyVars>>

NextCopy ==
    \/ \E p \in TargetPaths \ Roots : EnvCreateDir(p, 1)
    \/ \E p \in TargetPaths \ Roots, t \in 1..MaxTime : EnvWriteFile(p, t)
    \/ \E p \in TargetPaths \ Roots : EnvFault(<<"copy", p>>)
    \/ \E p \in SourcePaths \ Roots : RequestFile(p)
    \/ CallCopyFiles(list_of_files)
    \/ CopyFilesStep
    \/ CopyFilesReturn

InitCopy ==
    /\ fs = CopyFixture
    /\ faults = {}
    /\ dirOrder = (CHOOSE o \in Orders : TRUE)
    /\ pc = "setup"
    /\ source = <<>>
    /\ target = <<>>
    /\ directories_to_skip = {}
    /\ fs0 = CopyFixture
    /\ result = NoResult
    /\ list_of_directories = <<>>
    /\ list_of_files = <<>>
    /\ i = 0
    /\ failed_directories = <<>>
    /\ failed_files = <<>>
    /\ ops = <<>>
    /\ out = <<>>

SpecCopy == InitCopy /\ [][NextCopy]_vars

\* ------------------------- file_handling.rs: an apply phase, once started
\* Either apply phase, called on a list of its own.  A loop that has been
\* entered goes on: the code is sequential, nothing cancels it and every
\* filesystem call returns.
\* The lists name what a directory of the source tree holds or has held.
Requestable ==
    {p \in SourcePaths \ Roots : CopyFixture[Parent(p)].kind = "dir"}

NextApply ==
    \/ \E p \in Requestable : RequestDirectory(TargetRoot \o Tail(p))
    \/ \E p \in Requestable : RequestFile(p)
    \/ \E c \in ApplyFaults : EnvFault(c)
    \/ CallCreateDirectories(list_of_directories)
    \/ CreateDirectoriesStep
    \/ CreateDirectoriesReturn
    \/ CallCopyFiles(list_of_files)
    \/ CopyFilesStep
    \/ CopyFilesReturn

SpecApplyLive ==
    /\ InitCopy
    /\ [][NextApply]_vars
    /\ WF_vars(CreateDirectoriesStep)
    /\ WF_vars(CreateDirectoriesReturn)
    /\ WF_vars(CopyFilesStep)
    /\ WF_vars(CopyFilesReturn)

\* ------------------- file_handling.rs: diff, then apply, then diff again
\* An external writer creates an entry in the target after the diff has
\* returned and before the plan is applied, stamped with the time of the
\* run or a later one.
External(p, e) == [op |-> "external", path |-> p, ok |-> TRUE, entry |-> e]

ExternalWrite(p, e) ==
    /\ pc = "returned"
    /\ result.ok
    /\ fs[p].kind = "none"
    /\ fs[Parent(p)].kind = "dir"
    /\ NumEntries(fs) + Cardinality(faults) + Cardinality(directories_to_skip)
           < MaxSetup
    /\ fs' = [fs EXCEPT ![p] = e]
    /\ ops' = Append(ops, External(p, e))
    /\ UNCHANGED <<faults, dirOrder, pc, callVars, list_of_directories,
                   list_of_files, i, failed_directories, failed_files, out>>

\* create_directories is called on the directories of the plan.
SyncCreateDirectories ==
    /\ pc = "returned"
    /\ result.ok
    /\ list_of_directories' = result.directories
    /\ failed_directories' = <<>>
    /\ i' = 0
    /\ pc' = IF Len(result.directories) = 0 THEN "create_directories_returned"
             ELSE "in_create_directories"
    /\ UNCHANGED <<fs, faults, dirOrder, callVars, list_of_files, failed_files,
                   ops, out>>

\* copy_files is called on the files of the plan.
SyncCopyFiles ==
    /\ pc = "create_directories_returned"
    /\ list_of_files' = result.files
    /\ failed_files' = <<>>
    /\ i' = 0
    /\ pc' = IF Len(result.files) = 0 THEN "copy_files_returned"
             ELSE "in_copy_files"
    /\ UNCHANGED <<fs, faults, dirOrder, callVars, list_of_directories,
                   failed_directories, ops, out>>

\* get_files_and_directories is called again, with the arguments of the
\* first call.
SyncDiffAgain ==
    /\ pc = "copy_files_returned"
    /\ result' = get_files_and_directories(source, target, directories_to_skip)
    /\ pc' = "diffed_again"
    /\ UNCHANGED <<fs, faults, dirOrder, source, target, directories_to_skip,
                   fs0, applyVars>>

NextSync ==
    \/ Env
    \/ \E c \in DiffFaults \cup ApplyFaults : EnvFault(c)
    \/ \E p \in SourcePaths : EnvSkip(p)
    \/ CallGetFilesAndDirectories(SourceRoot, TargetRoot, directories_to_skip)
    \/ \E p \in TargetPaths \ Roots :
          \E e \in {DirEntry(Now)} \cup {FileEntry(t, <<"x">>) : t \in Now..MaxTime} :
              ExternalWrite(p, e)
    \/ SyncCreateDirectories
    \/ CreateDirectoriesStep
    \/ CreateDirectoriesReturn
    \/ SyncCopyFiles
    \/ CopyFilesStep
    \/ CopyFilesReturn
    \/ SyncDiffAgain

SpecSync == Init /\ [][NextSync]_vars

\* ----------------------------------------------- what a call is to return
\* These are stated over fs0, the filesystem the call read, and do not use
\* the operators of the walk.
Range(q) == {q[k] : k \in DOMAIN q}
IsUnder(p, d) == Len(p) > Len(d) /\ SubSeq(p, 1, Len(d)) = d
Rel(p) == SubSeq(p, Len(source) + 1, Len(p))
TargetOf(p) == target \o Rel(p)
\* The directories from source down to the parent of p.
Above(p) == {SubSeq(p, 1, k) : k \in Len(source)..(Len(p) - 1)}
SeenAsDir(p) == Kind(fs0, p) = "dir" /\ <<"metadata", p>> \notin faults
\* p is an entry the walk comes to when no call fails.
Visited(p) ==
    /\ p \in SourcePaths
    /\ IsUnder(p, source)
    /\ Kind(fs0, p) # "none"
    /\ \A q \in Above(p) :
          SeenAsDir(q) /\ (q # source => q \notin directories_to_skip)
VisitedFile(p) == Visited(p) /\ ~SeenAsDir(p)
VisitedDir(p) == Visited(p) /\ SeenAsDir(p) /\ p \notin directories_to_skip
TargetExists(p) == Kind(fs0, TargetOf(p)) # "none"
TargetOlder(p) == fs0[TargetOf(p)].mtime < fs0[p].mtime
Returned == pc = "returned"
PlanOk == Returned /\ result.ok
Planned(p) == \E f \in Range(result.files) : f.source = p

\* C1: a visited source file whose target exists is in the plan if and only
\* if the target's modification time is strictly earlier than the source's.
C1_ExistingTargetCopiedIffOlder ==
    PlanOk =>
        \A p \in SourcePaths :
            (VisitedFile(p) /\ TargetExists(p)) =>
                /\ TargetOlder(p) =>
                       FileToCopy(p, TargetOf(p)) \in Range(result.files)
                /\ ~TargetOlder(p) => ~Planned(p)

C1_Witness ==
    /\ PlanOk
    /\ \E p \in SourcePaths :
          /\ VisitedFile(p) /\ TargetExists(p) /\ TargetOlder(p) /\ Planned(p)
          /\ fs0[TargetOf(p)].mtime + 1 = fs0[p].mtime

\* The faults of the metadata and modification-time reads.
TimestampFaults == {c \in DiffFaults : c[1] \in {"metadata", "modified"}}

\* C2: a visited source file whose target does not exist is in the plan
\* whatever its modification time, and no metadata or modification time is
\* read for it: where no visited file has a target, failing metadata and
\* modification-time reads do not fail the call.
C2_MissingTargetAlwaysCopied ==
    /\ PlanOk =>
          \A p \in SourcePaths :
              (VisitedFile(p) /\ ~TargetExists(p)) =>
                  FileToCopy(p, TargetOf(p)) \in Range(result.files)
    /\ ( /\ Returned
         /\ faults \subseteq TimestampFaults
         /\ \A p \in SourcePaths : VisitedFile(p) => ~TargetExists(p) )
          => result.ok

C2_Witness ==
    /\ PlanOk
    /\ faults = {<<"modified", <<>>>>}
    /\ \E p, q \in SourcePaths :
          /\ VisitedFile(p) /\ ~TargetExists(p) /\ Planned(p)
          /\ VisitedFile(q) /\ ~TargetExists(q) /\ Planned(q)
          /\ fs0[p].mtime < fs0[q].mtime

\* C3: for a visited source directory that is not excluded, its target is in
\* the plan's directories if and only if the target does not exist, and its
\* files are compared in both cases.
C3_DirectoryPlannedIffMissing ==
    PlanOk =>
        \A p \in SourcePaths :
            VisitedDir(p) =>
                /\ DirectoryToCreate(TargetOf(p)) \in Range(result.directories)
                       <=> ~TargetExists(p)
                /\ \A n \in Names :
                      LET c == Append(p, n)
                      IN (c \in SourcePaths /\ Kind(fs0, c) = "file") =>
                             (Planned(c) <=> (~TargetExists(c) \/ TargetOlder(c)))

C3_Witness ==
    /\ PlanOk
    /\ \E p \in SourcePaths :
          /\ VisitedDir(p) /\ TargetExists(p)
          /\ DirectoryToCreate(TargetOf(p)) \notin Range(result.directories)
          /\ \E n \in Names : Planned(Append(p, n))

\* The plan holds no file from inside x and no directory for x or below it.
NothingFrom(x) ==
    /\ \A f \in Range(result.files) : ~IsUnder(f.source, x)
    /\ \A d \in Range(result.directories) :
          d.path # TargetOf(x) /\ ~IsUnder(d.path, TargetOf(x))

\* C4 as claimed: for any exclusion set, the plan holds no file from inside
\* an excluded directory and no directory for an excluded directory or one
\* of its descendants.
C4_NothingFromAnyExcluded ==
    PlanOk => \A x \in directories_to_skip : NothingFrom(x)

\* C4, amended: the same for every excluded directory below the source the
\* call was given; the source itself is walked without being looked up in
\* directories_to_skip.
C4_NothingFromExcludedBelowSource ==
    PlanOk => \A x \in directories_to_skip \ {source} : NothingFrom(x)

C4_Witness ==
    /\ PlanOk
    /\ \E x \in directories_to_skip \ {source} :
          \E p \in SourcePaths :
              /\ IsUnder(p, x)
              /\ Kind(fs0, p) = "file"
              /\ Kind(fs0, TargetOf(x)) = "none"
              /\ Kind(fs0, TargetOf(p)) = "none"

\* C5: every planned file's target is the target root joined with the
\* source's path relative to the source root, and every planned directory is
\* the target root joined with the relative path of a walked source
\* directory, at every depth.
C5_TargetsMirrorSources ==
    PlanOk =>
        /\ \A f \in Range(result.files) :
              /\ f.source \in SourcePaths
              /\ IsUnder(f.source, source)
              /\ f.target = TargetOf(f.source)
        /\ \A d \in Range(result.directories) :
              \E p \in SourcePaths : VisitedDir(p) /\ d.path = TargetOf(p)

C5_Witness ==
    /\ PlanOk
    /\ \E f \in Range(result.files) : Len(f.source) = Len(source) + 2
    /\ \E d \in Range(result.directories) : Len(d.path) = Len(target) + 2

\* The fallible calls a walk makes when none of them fails.
WalkedDirs ==
    {p \in SourcePaths : (p = source /\ SeenAsDir(p)) \/ VisitedDir(p)}
Checked(p) == Visited(p) /\ ~(SeenAsDir(p) /\ p \in directories_to_skip)
Compared(p) == VisitedFile(p) /\ TargetExists(p)
CallsOfWalk ==
    {<<"read_dir", p>> : p \in WalkedDirs}
        \cup {<<"exists", TargetOf(p)>> : p \in {q \in SourcePaths : Checked(q)}}
        \cup {<<"metadata", p>> : p \in {q \in SourcePaths : Compared(q)}}
        \cup {<<"metadata", TargetOf(p)>> : p \in {q \in SourcePaths : Compared(q)}}
        \cup {<<"modified", <<>>>> : p \in {q \in SourcePaths : Compared(q)}}

\* C6: when a directory listing, an existence check, a metadata read or a
\* modification-time read of the walk fails, the call returns the error and
\* no plan, whatever was collected before.
C6_FailureReturnsNoPlan ==
    (Returned /\ CallsOfWalk \cap faults # {}) => result = Err

C6_Witness ==
    /\ Returned
    /\ result = Err
    /\ LET first == <<"s", dirOrder[1]>>
           second == <<"s", dirOrder[2]>>
       IN /\ VisitedFile(first) /\ ~TargetExists(first)
          /\ faults = {<<"read_dir", second>>}
          /\ VisitedDir(second)

\* C8: a call leaves every path of the source tree and of the target tree
\* as it was: existence, content and modification time.
C8_DiffWritesNothing == Returned => fs = fs0

C8_Witness ==
    /\ PlanOk
    /\ result.files # <<>>
    /\ result.directories # <<>>
    /\ fs = fs0

\* C9: a source that is not a directory (a regular file, or missing) gives
\* Ok with an empty plan.
C9_NonDirectorySourceGivesEmptyPlan ==
    (Returned /\ Kind(fs0, source) # "dir") => result = Ok(<<>>, <<>>)

C9_Witness ==
    /\ Returned
    /\ Kind(fs0, source) = "file"
    /\ faults # {}
    /\ result = Ok(<<>>, <<>>)

\* The diff of the run returned Err.
DiffFailed == result = Err

\* C7: in the run of main, when the diff fails nothing is applied: no
\* directory is created, no file is copied, and the target tree stays as it
\* was before the run.
C7_FailedDiffAppliesNothing ==
    DiffFailed => (pc = "panicked" /\ ops = <<>> /\ fs = fs0)

C7_Witness ==
    /\ DiffFailed
    /\ pc = "panicked"
    /\ \E p, q \in SourcePaths :
          /\ Kind(fs0, p) = "dir" /\ Len(p) = 2 /\ ~TargetExists(p)
          /\ Kind(fs0, q) = "file" /\ Len(q) = 2 /\ ~TargetExists(q)

\* Created[k]: item k of the list is created, given the filesystem at the
\* call and the items before it.
Created[k \in 1..Len(list_of_directories)] ==
    LET p == list_of_directories[k].path
        made(q) == \E j \in 1..(k - 1) :
                       list_of_directories[j].path = q /\ Created[j]
    IN /\ <<"create_dir", p>> \notin faults
       /\ Kind(fs0, p) = "none" /\ ~made(p)
       /\ Kind(fs0, Parent(p)) = "dir" \/ made(Parent(p))

RECURSIVE FailedUpTo(_)
FailedUpTo(k) ==
    IF k = 0 THEN <<>>
    ELSE FailedUpTo(k - 1)
             \o (IF Created[k] THEN <<>> ELSE <<list_of_directories[k]>>)

\* C10: create_directories attempts every item of its list in order, a
\* failure does not stop the later items, and it returns exactly the items
\* whose creation failed, in input order; an empty list gives an empty list.
C10_CreateDirectoriesReturnsTheFailures ==
    pc = "create_directories_returned" =>
        /\ Len(ops) = Len(list_of_directories)
        /\ \A k \in 1..Len(list_of_directories) :
              /\ ops[k].op = "create_dir"
              /\ ops[k].path = list_of_directories[k].path
              /\ ops[k].ok = Created[k]
              /\ Created[k] => Kind(fs, list_of_directories[k].path) = "dir"
        /\ failed_directories = FailedUpTo(Len(list_of_directories))
        /\ list_of_directories = <<>> => failed_directories = <<>>

C10_Witness ==
    /\ pc = "create_directories_returned"
    /\ Len(list_of_directories) = 2
    /\ failed_directories = <<list_of_directories[1]>>
    /\ Kind(fs0, list_of_directories[1].path) = "dir"
    /\ Kind(fs0, list_of_directories[2].path) = "none"
    /\ Kind(fs, list_of_directories[2].path) = "dir"

\* ------------------------------------------------ what copy_files is to do
\* An item fs::copy can carry out, as the filesystem was when copy_files was
\* called: copy_files creates no directory and touches no source, so what
\* decides an item does not change while the list is worked through.
SourceMissing(f) == Kind(fs0, f.source) = "none"
TargetParentMissing(f) == Kind(fs0, Parent(f.target)) = "none"
ValidItem(f) ==
    /\ Kind(fs0, f.source) = "file"
    /\ Kind(fs0, Parent(f.target)) = "dir"
    /\ Kind(fs0, f.target) # "dir"
    /\ <<"copy", f.target>> \notin faults

\* C11: copy_files attempts every item in input order; an item whose source
\* is missing or whose target parent does not exist is returned as failed
\* and its target is not created, every valid item before or after it is
\* copied, and the returned list is exactly the failed items in input order.
C11_CopyFilesReturnsTheFailures ==
    pc = "copy_files_returned" =>
        /\ Len(ops) = Len(list_of_files)
        /\ \A k \in 1..Len(list_of_files) :
              LET f == list_of_files[k]
              IN /\ ops[k].op = "copy"
                 /\ ops[k].path = f.target
                 /\ ops[k].ok = ValidItem(f)
                 /\ SourceMissing(f) \/ TargetParentMissing(f) =>
                        /\ f \in Range(failed_files)
                        /\ Kind(fs, f.target) = Kind(fs0, f.target)
                        /\ Kind(fs0, f.target) = "none" \/ fs[f.target] = fs0[f.target]
                 /\ ValidItem(f) =>
                        /\ f \notin Range(failed_files)
                        /\ Kind(fs, f.target) = "file"
        /\ failed_files = SelectSeq(list_of_files, LAMBDA f : ~ValidItem(f))

C11_Witness ==
    /\ pc = "copy_files_returned"
    /\ Len(list_of_files) = 3
    /\ ValidItem(list_of_files[1])
    /\ TargetParentMissing(list_of_files[2])
    /\ Kind(fs0, list_of_files[2].source) = "file"
    /\ ValidItem(list_of_files[3])
    /\ failed_files = <<list_of_files[2]>>
    /\ Kind(fs, list_of_files[3].target) = "file"

\* C12: after copy_files every copied item's target holds the content of its
\* source, whether the target was absent or held something else before, and
\* no source file, copied or failed, has changed.
C12_CopiedContentEqualsSource ==
    pc \in {"in_copy_files", "copy_files_returned"} =>
        /\ \A k \in 1..Len(ops) :
              ops[k].ok =>
                  /\ Kind(fs, list_of_files[k].target) = "file"
                  /\ fs[list_of_files[k].target].content
                         = fs0[list_of_files[k].source].content
        /\ \A p \in SourcePaths : fs[p] = fs0[p]

C12_Witness ==
    /\ pc = "copy_files_returned"
    /\ \E k \in 1..Len(list_of_files) :
          LET f == list_of_files[k]
          IN /\ ops[k].ok
             /\ Kind(fs0, f.target) = "file"
             /\ fs0[f.target].content # fs0[f.source].content
             /\ fs[f.target].content = fs0[f.source].content

\* ------------------------------------------------ the order of the run
CopyAttempted == \E k \in 1..Len(ops) : ops[k].op = "copy"

\* C13: in the top-level run nothing is applied before the diff has
\* returned its whole plan, every directory of the plan is attempted before
\* the first copy, and no create_dir comes after a copy.
C13_PhasesAreOrdered ==
    /\ pc = "setup" => ops = <<>>
    /\ ops # <<>> =>
          /\ result.ok
          /\ list_of_directories = result.directories
          /\ list_of_files = result.files
    /\ \A k, l \in 1..Len(ops) :
          k < l /\ ops[k].op = "copy" => ops[l].op = "copy"
    /\ CopyAttempted =>
          /\ Len(ops) >= Len(list_of_directories)
          /\ \A k \in 1..Len(list_of_directories) :
                /\ ops[k].op = "create_dir"
                /\ ops[k].path = list_of_directories[k].path

C13_Witness ==
    /\ pc = "done"
    /\ Len(list_of_directories) >= 1
    /\ Len(ops) = Len(list_of_directories) + Len(list_of_files)
    /\ ops[1].op = "create_dir"
    /\ ops[Len(ops)].op = "copy"

\* ------------------------------------- diff, apply, and the diff run again
NoExternal == \A k \in 1..Len(ops) : ops[k].op # "external"
NoFailure == failed_directories = <<>> /\ failed_files = <<>>
\* A planned source file stamped later than the time of the run.
FutureSource ==
    \E k \in 1..Len(list_of_files) : fs0[list_of_files[k].source].mtime > Now

TargetOnly(p) ==
    /\ p \in TargetPaths
    /\ IsUnder(p, target)
    /\ Kind(fs0, p) # "none"
    /\ Kind(fs0, source \o SubSeq(p, Len(target) + 1, Len(p))) = "none"

Referenced(p) ==
    \/ \E f \in Range(result.files) \cup Range(list_of_files) : f.target = p
    \/ \E d \in Range(result.directories) \cup Range(list_of_directories) :
          d.path = p

\* C15: an entry that exists only in the target is named by no FileToCopy
\* target and no DirectoryToCreate path, and through the diff and both apply
\* phases it stays as it was: never deleted, never overwritten.
C15_TargetOnlyUntouched ==
    pc # "setup" /\ result.ok =>
        \A p \in TargetPaths :
            TargetOnly(p) => ~Referenced(p) /\ fs[p] = fs0[p]

C15_Witness ==
    /\ pc = "copy_files_returned"
    /\ \E k \in 1..Len(ops) : ops[k].op = "copy" /\ ops[k].ok
    /\ \E p \in TargetPaths :
          TargetOnly(p) /\ Kind(fs0, p) = "file" /\ fs[p] = fs0[p]

\* ------------------------------------------- failures in the top-level run
\* The file of the plan a copy attempt was made for.
FileOfAttempt(k) == list_of_files[k - Len(list_of_directories)]

\* C16: in the top-level run a failed create_dir does not keep the copies
\* from being attempted, and a failed copy is recorded as a failure while
\* the run goes on with the files left: it never aborts the run, and a run
\* that has ended has attempted every file of the plan.
C16_FailedCopyDoesNotAbortTheRun ==
    /\ \A k \in 1..Len(ops) :
          ops[k].op = "copy" /\ ~ops[k].ok =>
              /\ pc # "panicked"
              /\ FileOfAttempt(k) \in Range(failed_files)
    /\ pc \in {"done", "panicked"} /\ result.ok =>
          Len(ops) = Len(list_of_directories) + Len(list_of_files)

\* --------------------------------------- the order of the planned directories
ParentsFirst(dirs) ==
    \A k, l \in 1..Len(dirs) : IsUnder(dirs[l].path, dirs[k].path) => k < l
NoCreateDirFault == \A c \in faults : c[1] # "create_dir"
\* The target root is a directory, and where the source has a directory the
\* walk goes into, the target has a directory or nothing.
TargetFitsSource ==
    /\ Kind(fs0, target) = "dir"
    /\ \A p \in SourcePaths :
          VisitedDir(p) => Kind(fs0, TargetOf(p)) \in {"none", "dir"}

TakingDirectory(p) ==
    /\ pc = "in_create_directories"
    /\ i < Len(list_of_directories)
    /\ p = list_of_directories[i + 1].path
ItemFailed ==
    failed_directories' = Append(failed_directories, list_of_directories[i + 1])

\* C18: create_directories is non-recursive and non-overwriting.  An item
\* whose parent does not exist fails and nothing is created, neither the
\* item nor its parent; an item whose path exists fails and what is there
\* stays; an item whose parent an earlier item of the list created succeeds.
C18_CreateIsNotRecursiveAndNotOverwriting ==
    [][\A p \in TargetPaths :
          TakingDirectory(p) =>
              /\ Kind(fs, Parent(p)) = "none" => ItemFailed /\ fs' = fs
              /\ Kind(fs, p) # "none" => ItemFailed /\ fs' = fs
              /\ (/\ Kind(fs0, Parent(p)) = "none"
                  /\ Kind(fs, Parent(p)) = "dir"
                  /\ Kind(fs, p) = "none"
                  /\ <<"create_dir", p>> \notin faults) =>
                     /\ Kind(fs', p) = "dir"
                     /\ failed_directories' = failed_directories]_vars

C18_Witness ==
    /\ pc = "create_directories_returned"
    /\ Len(list_of_directories) = 3
    /\ list_of_directories[2] = list_of_directories[1]
    /\ Parent(list_of_directories[3].path) = list_of_directories[1].path
    /\ Kind(fs0, list_of_directories[1].path) = "none"
    /\ ops[1].ok /\ ~ops[2].ok /\ ops[3].ok
    /\ failed_directories = <<list_of_directories[2]>>

\* ------------------------------- a writer between the diff and the apply
\* copy_files is about to take the item f.
TakingFile(f) ==
    /\ pc = "in_copy_files"
    /\ i < Len(list_of_files)
    /\ f = list_of_files[i + 1]
\* The target of f is a file that is not older than the source of f.
TargetNotOlder(f) ==
    /\ Kind(fs, f.source) = "file"
    /\ Kind(fs, f.target) = "file"
    /\ fs[f.target].mtime >= fs[f.source].mtime
WrittenExternally(p) ==
    \E k \in 1..Len(ops) : ops[k].op = "external" /\ ops[k].path = p

\* C19: the apply phases go by the plan made at diff time.  copy_files
\* copies a listed file over a target that has become as new as or newer
\* than the source, comparing no times; create_directories reports a planned
\* directory that was created externally in the meantime as failed and goes
\* on to the next item.
C19_ApplyUsesTheDiffTimeSnapshot ==
    /\ [][\A f \in Range(list_of_files) :
             (/\ TakingFile(f) /\ TargetNotOlder(f)
              /\ <<"copy", f.target>> \notin faults) =>
                 /\ fs'[f.target].content = fs[f.source].content
                 /\ failed_files' = failed_files
                 /\ i' = i + 1]_vars
    /\ [][\A p \in TargetPaths :
             TakingDirectory(p) /\ WrittenExternally(p) =>
                 /\ ItemFailed
                 /\ fs' = fs
                 /\ i' = i + 1
                 /\ pc' = pc]_vars

C19_Witness ==
    /\ pc = "copy_files_returned"
    /\ failed_files = <<>>
    /\ \E k, l \in 1..Len(ops) :
          /\ k < l
          /\ ops[k].op = "external"
          /\ ops[k].entry.kind = "file"
          /\ ops[l].op = "copy" /\ ops[l].ok
          /\ ops[l].path = ops[k].path
          /\ \E f \in Range(list_of_files) :
                /\ f.target = ops[k].path
                /\ fs0[f.source].mtime < ops[k].entry.mtime
                /\ fs[f.target].content = fs0[f.source].content

\* ----------------------------------------- an apply phase runs to its end
\* The attempts made so far are those for the first i items, one each.
OneAttemptEach(paths) ==
    /\ Len(ops) = i
    /\ i <= Len(paths)
    /\ \A k \in 1..Len(ops) : ops[k].path = paths[k]

RECURSIVE TargetsOf(_)
TargetsOf(fls) ==
    IF fls = <<>> THEN <<>> ELSE <<Head(fls).target>> \o TargetsOf(Tail(fls))

\* C20: once started, create_directories and copy_files each return in the
\* end, having attempted every item of the list exactly once: n attempts
\* for n items, however many of them failed.
C20_ApplyPhaseRunsToCompletion ==
    /\ (pc = "in_create_directories") ~> (pc = "create_directories_returned")
    /\ (pc = "in_copy_files") ~> (pc = "copy_files_returned")
    /\ [](pc \in {"in_create_directories", "create_directories_returned"} =>
             OneAttemptEach(PathsOf(list_of_directories)))
    /\ [](pc \in {"in_copy_files", "copy_files_returned"} =>
             OneAttemptEach(TargetsOf(list_of_files)))
    /\ [](pc = "create_directories_returned" =>
             Len(ops) = Len(list_of_directories))
    /\ [](pc = "copy_files_returned" => Len(ops) = Len(list_of_files))

C20_Witness ==
    /\ pc = "copy_files_returned"
    /\ Len(list_of_files) = 3
    /\ Len(ops) = 3
    /\ Len(failed_files) = 2

\* ------------------------------------------- the summary of the top-level run
\* The lines of the output that follow the heading h, up to the next heading
\* (a heading carries no path).
ListedUnder(h) ==
    {out[k][2] : k \in {n \in 1..Len(out) :
        \E j \in 1..(n - 1) :
            /\ out[j] = Line(h, <<>>)
            /\ \A m \in (j + 1)..n : out[m][2] # <<>>}}

\* The paths printed with the given label.
Labelled(text) == {out[k][2] : k \in {n \in 1..Len(out) : out[n][1] = text}}

FailedCreations ==
    {ops[k].path : k \in {n \in 1..Len(ops) :
        ops[n].op = "create_dir" /\ ~ops[n].ok}}

FailedCopies ==
    {FileOfAttempt(k).source : k \in {n \in 1..Len(ops) :
        ops[n].op = "copy" /\ ~ops[n].ok}}

\* C21: the summary of a run that has ended lists as failed exactly the
\* directories whose creation failed and exactly the files whose copy
\* failed; no directory whose creation failed is reported as created, and
\* no file that was copied stands under the heading of the failed files.
C21_SummaryReportsExactlyTheFailures ==
    pc = "done" =>
        /\ Labelled("    ") = FailedCreations
        /\ Labelled("Directory created: ") \cap FailedCreations = {}
        /\ ListedUnder("Failed to create files:") = FailedCopies

\* --------------------------------------------- the parents of a plan's items
\* The first plan is at hand: the diff has returned it and has not run again.
FirstPlan == pc \notin {"setup", "diffed_again"} /\ result.ok

\* q existed when the diff ran (fs::exists, line 43), or the plan creates it.
ParentCovered(q) ==
    \/ Kind(fs0, q) # "none"
    \/ DirectoryToCreate(q) \in Range(result.directories)

\* The directory phase has returned and reported no failure.
DirectoriesAllCreated ==
    /\ pc \in {"create_directories_returned", "in_copy_files",
               "copy_files_returned"}
    /\ failed_directories = <<>>

\* C22: in a plan returned for a target root that exists, the parent of
\* every file's target and of every directory to create existed at diff
\* time or is itself a directory of the plan; so once create_directories
\* has returned without a failure the parent of every planned target is
\* there, before and all through the copy phase.
C22_ParentsExistOrArePlanned ==
    FirstPlan /\ Kind(fs0, target) # "none" =>
        /\ \A f \in Range(result.files) : ParentCovered(Parent(f.target))
        /\ \A d \in Range(result.directories) : ParentCovered(Parent(d.path))
        /\ DirectoriesAllCreated =>
              \A f \in Range(result.files) :
                  Kind(fs, Parent(f.target)) # "none"

\* A file was copied into a directory that was missing at diff time, planned
\* and created.
C22_Witness ==
    /\ FirstPlan
    /\ pc = "copy_files_returned"
    /\ failed_directories = <<>>
    /\ \E f \in Range(result.files) :
          /\ Kind(fs0, Parent(f.target)) = "none"
          /\ DirectoryToCreate(Parent(f.target)) \in Range(result.directories)
          /\ Kind(fs, f.target) = "file"
====
